---- MODULE Spec2Model ----
(***************************************************************************)
(* Connection detection of the IFC viewer: the FastIntersectionDetector    *)
(* (bounding filter, contact sampler, point deduplicator, classifier), the *)
(* IntersectionVisualizer and the Connections registry that drives them.   *)
(*                                                                         *)
(* Lengths are integers in units of 0.5 mm, so that the 1 mm, 5 mm and     *)
(* 1 cm tolerances of the source are 2, 10 and 20.  A distance d is never  *)
(* computed: every comparison of the source is made on squares, which is   *)
(* the same comparison because distances are non-negative.  The scalars    *)
(* that the source stores are kept exactly: a length as Root(t), the       *)
(* square root of the integer t, and an area as SumOfNorms(<<v1..vk>>, n), *)
(* which is (|v1| + ... + |vk|) / n for integer vectors vi.                *)
(* Arithmetic is exact; the rounding of IEEE doubles is not modelled.      *)
(***************************************************************************)
EXTENDS Integers, Sequences, FiniteSets, Bags, TLC

VARIABLES
    (* findIntersection: the raw contact points collected; createIntersectionVisualization: *)
    (* the points accepted by its deduplication loop and the classification returned       *)
    allIntersectionPoints, uniquePoints, result,
    (* one pair of elements and the result of findIntersection in both orders *)
    element1, element2, forward, backward,
    (* IFCViewer: the loaded models in the order of the models map, the number of  *)
    (* models opened so far, the viewer's connection mode flag                     *)
    models, openCount, isConnectionMode,
    (* FloatingMenu: the connections section is hidden; analyzeConnections calls   *)
    (* that are waiting for their 100 ms timer                                     *)
    connectionsSectionHidden, pending,
    (* Connections *)
    connectionDetector, connectionVisualizer, elementConnections,
    connectionVisualizations, connectionData,
    (* IntersectionVisualizer: visualizations, activeMode; the objects it added to *)
    (* the THREE.Scene                                                             *)
    visualizations, activeMode, sceneObjects,
    (* FastIntersectionDetector: the length of its meshes array *)
    detectorMeshes,
    (* the document: a .connections-error element (message and retry button) is shown *)
    connectionsError,
    (* IntersectionVisualizer.typeVisibility; FloatingMenu: the checked state of the three *)
    (* type-visibility checkboxes; the visible flag of the scene objects of every          *)
    (* visualization of the visualizer's map                                               *)
    typeVisibility, checked, objectVisible,
    (* raycastIntersection on its own: positionA.count, and the vertices probed and the *)
    (* rays cast by the sampling loop                                                   *)
    vertexCount, sampled,
    (* the connections list of the document: the type section of every .connection-item, *)
    (* the items that carry the class selected, and the visualizations that are          *)
    (* highlighted                                                                       *)
    connectionItems, selected, highlighted

cvars == <<allIntersectionPoints, uniquePoints, result>>
dvars == <<element1, element2, forward, backward>>
rvars == <<models, openCount, isConnectionMode, connectionsSectionHidden, pending,
           connectionDetector, connectionVisualizer, elementConnections,
           connectionVisualizations, connectionData, visualizations, activeMode, sceneObjects,
           detectorMeshes, connectionsError, typeVisibility, checked, objectVisible>>
uvars == <<typeVisibility, checked, objectVisible>>
svars == <<vertexCount, sampled>>
lvars == <<connectionItems, selected, highlighted>>
vars == <<cvars, dvars, rvars, svars, lvars>>

(***************************************************************************)
(* Program constants (units of 0.5 mm)                                     *)
(***************************************************************************)
dedupTolerance == 2
tolerance == 10
far == 20
touchingThreshold == 10
(* the coordinate values that stand for NaN, Infinity and (negated)        *)
(* -Infinity; no finite coordinate of the model reaches them                *)
NaN == -1000000
Infinity == 2000000

(***************************************************************************)
(* Bounds of the model                                                     *)
(***************************************************************************)
MaxPts == 4
(* raw points handed to the deduplicator on its own *)
MaxRaw == 4
MaxPlanes == 2
(* models loaded at one time, files opened in all, analyzeConnections calls waiting *)
MaxModels == 2
MaxLoads == 3
MaxPending == 2
(* meshes that setupBoundingBoxes has pushed to the detector in all *)
MaxMeshes == 6
(* vertices of a sampled mesh *)
MaxVertices == 2100
MaxItems == 3

(***************************************************************************)
(* THREE.Vector3 arithmetic                                                *)
(***************************************************************************)
subVectors(a, b) == <<a[1] - b[1], a[2] - b[2], a[3] - b[3]>>
addVectors(a, b) == <<a[1] + b[1], a[2] + b[2], a[3] + b[3]>>
multiplyScalar(a, s) == <<a[1] * s, a[2] * s, a[3] * s>>
dot(a, b) == a[1] * b[1] + a[2] * b[2] + a[3] * b[3]
crossVectors(a, b) ==
    <<a[2] * b[3] - a[3] * b[2], a[3] * b[1] - a[1] * b[3], a[1] * b[2] - a[2] * b[1]>>
lengthSq(a) == dot(a, a)
(* distanceTo, squared *)
distanceToSq(a, b) == lengthSq(subVectors(a, b))

Root(t) == [root |-> t]
SumOfNorms(vs, n) == [norms |-> vs, denom |-> n]

Abs(x) == IF x < 0 THEN -x ELSE x
Sign(x) == IF x < 0 THEN -1 ELSE IF x > 0 THEN 1 ELSE 0
Min(S) == CHOOSE x \in S : \A y \in S : x <= y
Max(S) == CHOOSE x \in S : \A y \in S : x >= y
RECURSIVE Gcd(_, _)
Gcd(a, b) == IF b = 0 THEN a ELSE Gcd(b, a % b)

(***************************************************************************)
(* Point deduplicator: createIntersectionVisualization, first loop         *)
(***************************************************************************)
isNaNPoint(p) == p[1] = NaN \/ p[2] = NaN \/ p[3] = NaN
isFinitePoint(p) == \A k \in 1..3 : p[k] \notin {NaN, Infinity, -Infinity}

(* point.distanceTo(up) < dedupTolerance.  With an infinite coordinate in   *)
(* either point the distance is Infinity or NaN and the test is false.      *)
distanceToBelow_inclusive(point, up) ==
    /\ isFinitePoint(point)
    /\ isFinitePoint(up)
    /\ distanceToSq(point, up) <= dedupTolerance * dedupTolerance
distanceToBelow(point, up) ==
    /\ isFinitePoint(point)
    /\ isFinitePoint(up)
    /\ distanceToSq(point, up) < dedupTolerance * dedupTolerance

RECURSIVE Deduplicate(_, _)
Deduplicate(points, unique) ==
    IF points = <<>> THEN unique
    ELSE LET point == Head(points)
         IN  IF isNaNPoint(point) THEN Deduplicate(Tail(points), unique)
             ELSE LET duplicate == \E k \in 1..Len(unique) : distanceToBelow(point, unique[k])
                  IN  IF duplicate THEN Deduplicate(Tail(points), unique)
                      ELSE Deduplicate(Tail(points), Append(unique, point))

(***************************************************************************)
(* Farthest pair: the double loop over i < j starts from p1 = p2 = u[0],   *)
(* maxDist = 0 and replaces them when d > maxDist (strict), so it ends     *)
(* with the first pair, in the order of the loops, whose distance is the   *)
(* largest; the start values stay when no distance exceeds 0.              *)
(* maxDist holds the square of the source's maxDist.                       *)
(***************************************************************************)
LoopPairs(n) == {<<i, j>> \in (1..n) \X (1..n) : i < j}
LoopBefore(p, q) == p[1] < q[1] \/ (p[1] = q[1] /\ p[2] < q[2])

FarthestScan(u) ==
    LET pairs == LoopPairs(Len(u))
        maxDist == Max({distanceToSq(u[p[1]], u[p[2]]) : p \in pairs} \cup {0})
        reached == {p \in pairs : distanceToSq(u[p[1]], u[p[2]]) = maxDist}
        first == CHOOSE p \in reached : \A q \in reached : q = p \/ LoopBefore(p, q)
    IN  IF maxDist = 0 THEN [p1 |-> u[1], p2 |-> u[1], maxDist |-> 0]
        ELSE [p1 |-> u[first[1]], p2 |-> u[first[2]], maxDist |-> maxDist]

FarthestPair_adjacentOnly(u) ==
    LET n == Len(u)
        best == CHOOSE i \in 1..(n - 1) :
                    \A k \in 1..(n - 1) : distanceToSq(u[k], u[k + 1]) <= distanceToSq(u[i], u[i + 1])
    IN  [p1 |-> u[best], p2 |-> u[best + 1], maxDist |-> distanceToSq(u[best], u[best + 1])]

(* d >= maxDist in place of d > maxDist: the last pair at the largest distance *)
FarthestPair_lastWins(u) ==
    LET pairs == LoopPairs(Len(u))
        maxDist == Max({distanceToSq(u[p[1]], u[p[2]]) : p \in pairs} \cup {0})
        reached == {p \in pairs : distanceToSq(u[p[1]], u[p[2]]) = maxDist}
        last == CHOOSE p \in reached : \A q \in reached : q = p \/ LoopBefore(q, p)
    IN  IF pairs = {} THEN [p1 |-> u[1], p2 |-> u[1], maxDist |-> 0]
        ELSE [p1 |-> u[last[1]], p2 |-> u[last[2]], maxDist |-> maxDist]
FarthestPair(u) == FarthestScan(u)

(* maxDist < tolerance, on the squares *)
maxDistBelow_inclusive(maxDist) == maxDist <= tolerance * tolerance
maxDistBelow(maxDist) == maxDist < tolerance * tolerance

(***************************************************************************)
(* Deviation of pt from the line (p1, p2).  With D = p2 - p1 and           *)
(* v = pt - p1 the source computes |v - lineDir (v . lineDir)|, whose      *)
(* square is (|v|^2 |D|^2 - (v . D)^2) / |D|^2.  DeviationNum is the       *)
(* numerator; deviation < tolerance is DeviationNum < tolerance^2 |D|^2.   *)
(***************************************************************************)
DeviationNum(pt, p1, p2) ==
    LET D == subVectors(p2, p1)
        v == subVectors(pt, p1)
    IN  lengthSq(v) * lengthSq(D) - dot(v, D) * dot(v, D)

DeviationBelow(pt, p1, p2) ==
    DeviationNum(pt, p1, p2) < tolerance * tolerance * lengthSq(subVectors(p2, p1))
DeviationAbove(pt, p1, p2) ==
    DeviationNum(pt, p1, p2) > tolerance * tolerance * lengthSq(subVectors(p2, p1))

(* maxDeviation < tolerance: the maximum over all points is below it *)
maxDeviationBelow(u, p1, p2) == \A k \in 1..Len(u) : DeviationBelow(u[k], p1, p2)

(* the first candidate other than p1, p2 that deviates by more than the tolerance; 0 if none *)
RECURSIVE FindP3_inclusive(_, _, _, _)
FindP3_inclusive(u, k, p1, p2) ==
    IF k > Len(u) THEN 0
    ELSE IF u[k] = p1 \/ u[k] = p2 THEN FindP3_inclusive(u, k + 1, p1, p2)
    ELSE IF ~DeviationBelow(u[k], p1, p2) THEN k
    ELSE FindP3_inclusive(u, k + 1, p1, p2)
RECURSIVE FindP3(_, _, _, _)
FindP3(u, k, p1, p2) ==
    IF k > Len(u) THEN 0
    ELSE IF u[k] = p1 \/ u[k] = p2 THEN FindP3(u, k + 1, p1, p2)
    ELSE IF DeviationAbove(u[k], p1, p2) THEN k
    ELSE FindP3(u, k + 1, p1, p2)

(***************************************************************************)
(* orderPointsForRectangle.  The centre is sum/4, so 4 (p - centre) =      *)
(* 4 p - sum.  The plane normal is (p1 - p0) x (p2 - p0) scaled to unit     *)
(* length in the source (the zero vector stays zero); here it is scaled to *)
(* the shortest integer vector N of the same direction.  projectOnPlane    *)
(* gives v - N (v . N) / |N|^2 (v itself when N is zero); it is multiplied *)
(* here by the positive |N|^2, which leaves atan2 unchanged.  Only the x   *)
(* and y of the projection are used.                                       *)
(***************************************************************************)
RECURSIVE SumPoints(_)
SumPoints(ps) == IF ps = <<>> THEN <<0, 0, 0>> ELSE addVectors(Head(ps), SumPoints(Tail(ps)))

Projected(p, points) ==
    LET sum == SumPoints(points)
        v == subVectors(multiplyScalar(p, Len(points)), sum)
        c == crossVectors(subVectors(points[2], points[1]), subVectors(points[3], points[1]))
        g == Gcd(Gcd(Abs(c[1]), Abs(c[2])), Abs(c[3]))
        N == IF g = 0 THEN c ELSE <<c[1] \div g, c[2] \div g, c[3] \div g>>
    IN  IF lengthSq(N) = 0 THEN v
        ELSE subVectors(multiplyScalar(v, lengthSq(N)), multiplyScalar(N, dot(v, N)))

(* Math.atan2(y, x) lies in (-pi, pi]; a zero is taken as +0.              *)
(* AngleRange: 1 for (-pi, 0), 2 for 0, 3 for (0, pi), 4 for pi.           *)
AngleRange(q) ==
    IF q[2] < 0 THEN 1
    ELSE IF q[2] > 0 THEN 3
    ELSE IF q[1] >= 0 THEN 2 ELSE 4

(* a * b < c * d, exact for |a|, |b|, |c|, |d| < 10^8: the products are    *)
(* compared as sign and three digits in base 10^4, within 32-bit integers  *)
ProductDigits(a, b) ==
    LET B == 10000
        ah == Abs(a) \div B
        al == Abs(a) % B
        bh == Abs(b) \div B
        bl == Abs(b) % B
        m0 == al * bl
        t1 == ah * bl + al * bh + (m0 \div B)
    IN  <<ah * bh + (t1 \div B), t1 % B, m0 % B>>
DigitsLess(m, n) ==
    \/ m[1] < n[1]
    \/ m[1] = n[1] /\ m[2] < n[2]
    \/ m[1] = n[1] /\ m[2] = n[2] /\ m[3] < n[3]
ProductLess(a, b, c, d) ==
    LET s == Sign(a) * Sign(b)
        t == Sign(c) * Sign(d)
    IN  IF s # t THEN s < t
        ELSE IF s = 0 THEN FALSE
        ELSE IF s = 1 THEN DigitsLess(ProductDigits(a, b), ProductDigits(c, d))
        ELSE DigitsLess(ProductDigits(c, d), ProductDigits(a, b))

(* atan2(a.y, a.x) < atan2(b.y, b.x): within an open half plane the angle   *)
(* grows counter-clockwise, a.x * b.y - a.y * b.x > 0                       *)
AngleLess(a, b) ==
    \/ AngleRange(a) < AngleRange(b)
    \/ /\ AngleRange(a) = AngleRange(b)
       /\ AngleRange(a) \in {1, 3}
       /\ ProductLess(a[2], b[1], a[1], b[2])

(* Array.prototype.sort with (a, b) => a.angle - b.angle: a stable sort *)
RECURSIVE InsertByAngle(_, _, _)
InsertByAngle(sorted, p, points) ==
    IF sorted = <<>> THEN <<p>>
    ELSE IF AngleLess(Projected(p, points), Projected(Head(sorted), points))
         THEN <<p>> \o sorted
         ELSE <<Head(sorted)>> \o InsertByAngle(Tail(sorted), p, points)

RECURSIVE SortByAngle(_, _, _)
SortByAngle(points, k, sorted) ==
    IF k > Len(points) THEN sorted
    ELSE SortByAngle(points, k + 1, InsertByAngle(sorted, points[k], points))

(***************************************************************************)
(* calculateQuadArea: |diagonal1 x diagonal2| / 2                          *)
(***************************************************************************)
calculateQuadArea(orderedPoints) ==
    IF Len(orderedPoints) # 4 THEN SumOfNorms(<<>>, 1)
    ELSE LET diagonal1 == subVectors(orderedPoints[3], orderedPoints[1])
             diagonal2 == subVectors(orderedPoints[4], orderedPoints[2])
         IN  SumOfNorms(<<crossVectors(diagonal1, diagonal2)>>, 2)

orderPointsForRectangle(points) ==
    IF Len(points) # 4 THEN points ELSE SortByAngle(points, 1, <<>>)

(***************************************************************************)
(* Triangle fan around the centroid (3 or 5+ points).  The centroid is     *)
(* sum/n; n (p - centre) = n p - sum, so every cross product is scaled by  *)
(* n^2 and the area is (sum of |cross|) / (2 n^2).  Vertex 0 of the mesh   *)
(* is the centroid, vertex k is uniquePoints[k] (1-based here as there).   *)
(***************************************************************************)
FanIndices(n) ==
    [i \in 1..(n - 1) |-> <<0, i, IF i + 1 < n THEN i + 1 ELSE 1>>]

FanArea(u) ==
    LET n == Len(u)
        sum == SumPoints(u)
        rel(k) == subVectors(multiplyScalar(u[k], n), sum)
    IN  SumOfNorms([i \in 1..n |-> crossVectors(rel(i), rel((i % n) + 1))], 2 * n * n)

(***************************************************************************)
(* createIntersectionVisualization: deduplicate, then classify             *)
(***************************************************************************)
NullResult == [type |-> "null"]

PointResult(p) ==
    [type |-> "point", geometry |-> [points |-> <<p>>], measurements |-> <<>>]
LineResult_none(p1, p2, maxDist) == NullResult
LineResult(p1, p2, maxDist) ==
    [type |-> "line", geometry |-> [lines |-> <<p1, p2>>],
     measurements |-> [length |-> Root(maxDist)]]
QuadResult_withLength(orderedPoints) ==
    [type |-> "surface",
     geometry |-> [points |-> orderedPoints,
                   surface |-> [position |-> orderedPoints,
                                index |-> <<<<0, 1, 2>>, <<2, 3, 0>>>>]],
     measurements |-> [area |-> calculateQuadArea(orderedPoints),
                       length |-> Root(FarthestPair(orderedPoints).maxDist)]]
QuadResult(orderedPoints) ==
    [type |-> "surface",
     geometry |-> [points |-> orderedPoints,
                   surface |-> [position |-> orderedPoints,
                                index |-> <<<<0, 1, 2>>, <<2, 3, 0>>>>]],
     measurements |-> [area |-> calculateQuadArea(orderedPoints)]]
FanResult(u) ==
    [type |-> "surface",
     geometry |-> [points |-> u,
                   surface |-> [center |-> [sum |-> SumPoints(u), count |-> Len(u)],
                                position |-> u,
                                index |-> FanIndices(Len(u))]],
     measurements |-> [area |-> FanArea(u)]]

Classify(unique) ==
    IF Len(unique) = 0 THEN NullResult
    ELSE IF Len(unique) = 1 THEN PointResult(unique[1])
    ELSE LET fp == FarthestPair(unique)
             p1 == fp.p1
             p2 == fp.p2
         IN  IF maxDistBelow(fp.maxDist) THEN PointResult(p1)
             ELSE IF maxDeviationBelow(unique, p1, p2)
                  THEN LineResult(p1, p2, fp.maxDist)
             ELSE IF FindP3(unique, 1, p1, p2) = 0
                  THEN LineResult(p1, p2, fp.maxDist)
             ELSE IF Len(unique) = 4
                  THEN QuadResult(orderPointsForRectangle(unique))
             ELSE FanResult(unique)

createIntersectionVisualization(points) == Classify(Deduplicate(points, <<>>))

(***************************************************************************)
(* Solids and elements.  A solid is a THREE.Mesh whose geometry, already   *)
(* in world space, is an axis-aligned box [min, max] with its 8 corners as *)
(* vertices and a THREE.DoubleSide material (as loadIFC creates them);     *)
(* geometry is "ok", "noPosition" (a geometry without position attribute)  *)
(* or "none" (no geometry).  An element is the sequence of the meshes of   *)
(* its Element_ group.                                                     *)
(***************************************************************************)
BoxMesh(lo, hi) == [geometry |-> "ok", min |-> lo, max |-> hi]
NoPositionMesh == [geometry |-> "noPosition", min |-> <<0, 0, 0>>, max |-> <<0, 0, 0>>]
NoGeometryMesh == [geometry |-> "none", min |-> <<0, 0, 0>>, max |-> <<0, 0, 0>>]

(* the position attribute: vertex k (0-based in the source) *)
positionCount(mesh) == 8
fromBufferAttribute(mesh, k) ==
    <<IF (k \div 4) % 2 = 0 THEN mesh.min[1] ELSE mesh.max[1],
      IF (k \div 2) % 2 = 0 THEN mesh.min[2] ELSE mesh.max[2],
      IF k % 2 = 0 THEN mesh.min[3] ELSE mesh.max[3]>>

rayDirections ==
    <<<<1, 0, 0>>, <<-1, 0, 0>>, <<0, 1, 0>>, <<0, -1, 0>>, <<0, 0, 1>>, <<0, 0, -1>>>>

(***************************************************************************)
(* raycaster.intersectObject(meshB) for a ray from v along an axis         *)
(* direction, far = 1 cm: the hits on the two faces of the box that are    *)
(* perpendicular to the ray (both sides count, the material is double      *)
(* sided; the edges of a face belong to it), nearest first.  A geometry    *)
(* without position attribute has no triangle to hit.  The result is the   *)
(* sequence holding intersects[0].point, or the empty sequence.            *)
(***************************************************************************)
intersectObject(v, direction, meshB) ==
    IF meshB.geometry # "ok" THEN <<>>
    ELSE LET axis == CHOOSE k \in 1..3 : direction[k] # 0
             within == \A k \in (1..3) \ {axis} : meshB.min[k] <= v[k] /\ v[k] <= meshB.max[k]
             distances == {direction[axis] * (plane - v[axis]) :
                               plane \in {meshB.min[axis], meshB.max[axis]}} \cap (0..far)
         IN  IF within /\ distances # {}
             THEN <<addVectors(v, multiplyScalar(direction, Min(distances)))>>
             ELSE <<>>

(* the sampling stride over the vertices of meshA *)
stride(count) == Max({1, count \div 1000})

RECURSIVE CastRays(_, _, _)
CastRays(v, d, meshB) ==
    IF d > Len(rayDirections) THEN <<>>
    ELSE intersectObject(v, rayDirections[d], meshB) \o CastRays(v, d + 1, meshB)

RECURSIVE SampleVertices(_, _, _)
SampleVertices(meshA, i, meshB) ==
    IF i >= positionCount(meshA) THEN <<>>
    ELSE CastRays(fromBufferAttribute(meshA, i), 1, meshB)
             \o SampleVertices(meshA, i + stride(positionCount(meshA)), meshB)

(* raycastIntersection: reading positionA.count of a geometry that has no  *)
(* position attribute throws a TypeError                                   *)
Thrown == [throws |-> TRUE, points |-> <<>>]
Returned(pts) == [throws |-> FALSE, points |-> pts]

raycastIntersection(meshA, meshB) ==
    IF meshA.geometry = "none" \/ meshB.geometry = "none" THEN Returned(<<>>)
    ELSE IF meshA.geometry = "noPosition" THEN Thrown
    ELSE Returned(SampleVertices(meshA, 0, meshB))

(***************************************************************************)
(* THREE.Box3: setFromObject encloses the geometries that have positions;  *)
(* a box that encloses nothing is empty, intersects nothing and has its    *)
(* centre at the origin.  center2 is twice the centre.                     *)
(***************************************************************************)
setFromObject(obj) ==
    LET solid == {k \in 1..Len(obj) : obj[k].geometry = "ok"}
    IN  IF solid = {} THEN [empty |-> TRUE, min |-> <<0, 0, 0>>, max |-> <<0, 0, 0>>]
        ELSE [empty |-> FALSE,
              min |-> [a \in 1..3 |-> Min({obj[k].min[a] : k \in solid})],
              max |-> [a \in 1..3 |-> Max({obj[k].max[a] : k \in solid})]]

intersectsBox(boxA, boxB) ==
    /\ ~boxA.empty
    /\ ~boxB.empty
    /\ \A a \in 1..3 : ~(boxB.max[a] < boxA.min[a] \/ boxB.min[a] > boxA.max[a])

center2(box) == IF box.empty THEN <<0, 0, 0>> ELSE addVectors(box.min, box.max)

(* the bounding filter of findIntersection: TRUE when the pair is kept *)
BoundingFilter_none(obj1, obj2) == TRUE
BoundingFilter(obj1, obj2) ==
    LET boxA == setFromObject(obj1)
        boxB == setFromObject(obj2)
    IN  \/ intersectsBox(boxA, boxB)
        \/ ~(distanceToSq(center2(boxA), center2(boxB)) > 4 * touchingThreshold * touchingThreshold)

(* findIntersection gets as far as the loop that calls raycastIntersection *)
reachesSampler(obj1, obj2) ==
    /\ Len(SelectSeq(obj1, LAMBDA mesh : mesh.geometry # "none")) # 0
    /\ Len(SelectSeq(obj2, LAMBDA mesh : mesh.geometry # "none")) # 0
    /\ BoundingFilter(obj1, obj2)

(* the double loop over the mesh pairs; a throw ends it *)
RECURSIVE RaycastPairs(_, _, _, _)
RaycastPairs(meshesA, meshesB, a, b) ==
    IF a > Len(meshesA) THEN Returned(<<>>)
    ELSE IF b > Len(meshesB) THEN RaycastPairs(meshesA, meshesB, a + 1, 1)
    ELSE LET pts == raycastIntersection(meshesA[a], meshesB[b])
             rest == RaycastPairs(meshesA, meshesB, a, b + 1)
         IN  IF pts.throws \/ rest.throws THEN Thrown
             ELSE Returned(pts.points \o rest.points)

ThrowResult == [type |-> "throw"]

hasGeometry(mesh) == mesh.geometry # "none"

findIntersection(obj1, obj2) ==
    LET meshesA == SelectSeq(obj1, hasGeometry)
        meshesB == SelectSeq(obj2, hasGeometry)
    IN  IF Len(meshesA) = 0 \/ Len(meshesB) = 0 THEN NullResult
        ELSE IF ~BoundingFilter(obj1, obj2) THEN NullResult
        ELSE LET all == RaycastPairs(meshesA, meshesB, 1, 1)
             IN  IF all.throws THEN ThrowResult
                 ELSE IF Len(all.points) = 0 THEN NullResult
                 ELSE createIntersectionVisualization(all.points)

(***************************************************************************)
(* The classifier on its own: a list of raw contact points is collected    *)
(* and then classified.                                                    *)
(***************************************************************************)
(* The corners of a cube of side Side, which is more than far (a ray that   *)
(* starts on one face of such a cube does not reach the opposite face) and  *)
(* enough for the corners of a face to deviate from its diagonal by more    *)
(* than the tolerance; and on the x axis a near duplicate of the origin, a  *)
(* point at exactly the tolerance from the origin and a point               *)
(* dedupTolerance short of it.                                              *)
Side == far + dedupTolerance
GridCube == {<<x, y, z>> : x \in {0, Side}, y \in {0, Side}, z \in {0, Side}}
GridAxis == {<<dedupTolerance - 1, 0, 0>>, <<tolerance - dedupTolerance, 0, 0>>, <<tolerance, 0, 0>>}
(* a point at the tolerance from the middle of an edge of the cube, and a point as far *)
(* from the origin as from <<tolerance - dedupTolerance, 0, 0>>, less than the        *)
(* tolerance from both                                                                *)
GridOff == {<<Side \div 2, tolerance, 0>>, <<(tolerance - dedupTolerance) \div 2, 7, 0>>}
Grid == GridCube \cup GridAxis \cup GridOff

NotClassified == [type |-> "pending"]

ConnectionTypes == {"point", "line", "surface"}

(* no mesh is being sampled *)
NotSampled == [done |-> FALSE]
SIdle ==
    /\ vertexCount = 0
    /\ sampled = NotSampled

(* the connections list is empty *)
LIdle ==
    /\ connectionItems = <<>>
    /\ selected = {}
    /\ highlighted = {}

(* no pair is under analysis *)
DIdle ==
    /\ element1 = <<>>
    /\ element2 = <<>>
    /\ forward = NotClassified
    /\ backward = NotClassified

(* the application after construction: no model loaded, the connections section hidden *)
RInit ==
    /\ models = <<>>
    /\ openCount = 0
    /\ isConnectionMode = FALSE
    /\ connectionsSectionHidden = TRUE
    /\ pending = 0
    /\ connectionDetector = FALSE
    /\ connectionVisualizer = FALSE
    /\ elementConnections = <<>>
    /\ connectionVisualizations = <<>>
    /\ connectionData = [isNull |-> TRUE]
    /\ visualizations = <<>>
    /\ activeMode = FALSE
    /\ sceneObjects = EmptyBag
    /\ detectorMeshes = 0
    /\ connectionsError = FALSE
    /\ typeVisibility = [type \in ConnectionTypes |-> TRUE]
    /\ checked = [type \in ConnectionTypes |-> TRUE]
    /\ objectVisible = <<>>

CInit ==
    /\ allIntersectionPoints = <<>>
    /\ uniquePoints = <<>>
    /\ result = NotClassified

PushPoint ==
    /\ Len(allIntersectionPoints) < MaxPts
    /\ result = NotClassified
    /\ \E p \in Grid : allIntersectionPoints' = Append(allIntersectionPoints, p)
    /\ UNCHANGED <<uniquePoints, result, dvars, rvars, svars, lvars>>

ClassifyPoints ==
    /\ result = NotClassified
    /\ allIntersectionPoints # <<>>
    /\ uniquePoints' = Deduplicate(allIntersectionPoints, <<>>)
    /\ result' = createIntersectionVisualization(allIntersectionPoints)
    /\ UNCHANGED <<allIntersectionPoints, dvars, rvars, svars, lvars>>

CNext == PushPoint \/ ClassifyPoints

Init == CInit /\ DIdle /\ RInit /\ SIdle /\ LIdle

SpecClassify == Init /\ [][CNext]_vars

(***************************************************************************)
(* The deduplicator on its own: the first loop of                          *)
(* createIntersectionVisualization on a list of raw points, up to the      *)
(* return of null for an empty uniquePoints.  The raw points lie on the x  *)
(* axis half a dedupTolerance apart, or have a NaN or infinite coordinate. *)
(***************************************************************************)
RawGrid ==
    {<<x, 0, 0>> : x \in {0, dedupTolerance \div 2, dedupTolerance, dedupTolerance + dedupTolerance \div 2}}
        \cup {<<NaN, 0, 0>>, <<0, 0, NaN>>, <<Infinity, 0, 0>>, <<-Infinity, 0, 0>>}
RawLists == UNION {[1..n -> RawGrid] : n \in 1..MaxRaw}

RawInit ==
    /\ allIntersectionPoints \in RawLists
    /\ uniquePoints = <<>>
    /\ result = NotClassified

DeduplicatePoints ==
    /\ uniquePoints = <<>>
    /\ result = NotClassified
    /\ uniquePoints' = Deduplicate(allIntersectionPoints, <<>>)
    /\ result' = IF Len(Deduplicate(allIntersectionPoints, <<>>)) = 0 THEN NullResult ELSE result
    /\ UNCHANGED <<allIntersectionPoints, dvars, rvars, svars, lvars>>

DedupInit == RawInit /\ DIdle /\ RInit /\ SIdle /\ LIdle

SpecDedup == DedupInit /\ [][DeduplicatePoints]_vars

(***************************************************************************)
(* The sampling loop of raycastIntersection on a mesh of any vertex count: *)
(* for (i = 0; i < positionA.count; i += stride), six rays for each i.     *)
(***************************************************************************)
ProbedIndices(count) == {i \in 0..(count - 1) : i % stride(count) = 0}

SInit ==
    /\ vertexCount \in 0..MaxVertices
    /\ sampled = NotSampled

SampleLoop ==
    /\ ~sampled.done
    /\ sampled' = [done |-> TRUE,
                   probed |-> Cardinality(ProbedIndices(vertexCount)),
                   rays |-> Cardinality(ProbedIndices(vertexCount)) * Len(rayDirections)]
    /\ UNCHANGED <<vertexCount, cvars, dvars, rvars, lvars>>

SampleInit == CInit /\ DIdle /\ RInit /\ SInit /\ LIdle

SpecSample == SampleInit /\ [][SampleLoop]_vars

(***************************************************************************)
(* The detector on one pair of elements, analysed in both orders.          *)
(* The solids are boxes between the planes 0, Side, .., MaxPlanes Side     *)
(* along x and z and between 0 and Side along y, Side or 2 Side wide; an   *)
(* element is one box, or one box with a malformed solid after it, or a    *)
(* malformed solid alone.                                                  *)
(***************************************************************************)
Intervals(n) == {<<p[1] * Side, p[2] * Side>> :
                     p \in {q \in (0..n) \X (0..n) : q[1] < q[2] /\ q[2] - q[1] <= 2}}
Boxes == {BoxMesh(<<ix[1], iy[1], iz[1]>>, <<ix[2], iy[2], iz[2]>>) :
              ix \in Intervals(MaxPlanes), iy \in Intervals(1), iz \in Intervals(MaxPlanes)}
Malformed == {NoPositionMesh, NoGeometryMesh}
ElementFamily ==
    {<<b>> : b \in Boxes} \cup {<<b, m>> : b \in Boxes, m \in Malformed} \cup {<<m>> : m \in Malformed}

DInit ==
    /\ element1 \in ElementFamily
    /\ element2 \in ElementFamily
    /\ forward = NotClassified
    /\ backward = NotClassified

FindForward ==
    /\ forward = NotClassified
    /\ forward' = findIntersection(element1, element2)
    /\ UNCHANGED <<element1, element2, backward, cvars, rvars, svars, lvars>>

FindBackward ==
    /\ backward = NotClassified
    /\ backward' = findIntersection(element2, element1)
    /\ UNCHANGED <<element1, element2, forward, cvars, rvars, svars, lvars>>

DNext == FindForward \/ FindBackward

DetectInit == CInit /\ DInit /\ RInit /\ SIdle /\ LIdle

SpecDetect == DetectInit /\ [][DNext]_vars

(***************************************************************************)
(* The application: IFCViewer (models), FloatingMenu (the connections      *)
(* button) and Connections (the registry).                                 *)
(*                                                                         *)
(* The IFC files that can be opened, each with the Element_ groups that     *)
(* loadIFC builds from it: "a" holds element 1, "b" holds elements 2 and 3  *)
(* (1, 2, 3 are cubes in a row along x, each touching the next), "c" holds  *)
(* element 5, a cube beside element 1 followed by a solid whose geometry    *)
(* has no position attribute, "d" holds element 7, a slab whose face is     *)
(* parallel to the end face of element 3, 2 mm from it and wider than it,   *)
(* and element 8, a cube 1 m further along x.                               *)
(***************************************************************************)
Millimetre == dedupTolerance
Metre == 1000 * Millimetre
Files == {"a", "b", "c", "d"}
createElementGroup(expressID, meshes) == [expressID |-> expressID, meshes |-> meshes]
FileElements(file) ==
    CASE file = "a" -> <<createElementGroup(1, <<BoxMesh(<<0, 0, 0>>, <<Side, Side, Side>>)>>)>>
      [] file = "b" -> <<createElementGroup(2, <<BoxMesh(<<Side, 0, 0>>, <<2 * Side, Side, Side>>)>>),
                         createElementGroup(3, <<BoxMesh(<<2 * Side, 0, 0>>, <<3 * Side, Side, Side>>)>>)>>
      [] file = "c" -> <<createElementGroup(5, <<BoxMesh(<<0, Side, 0>>, <<Side, 2 * Side, Side>>),
                                                 NoPositionMesh>>)>>
      [] file = "d" -> <<createElementGroup(7, <<BoxMesh(<<3 * Side + 2 * Millimetre, -Side, -Side>>,
                                                         <<4 * Side + 2 * Millimetre, 2 * Side, 2 * Side>>)>>),
                         createElementGroup(8, <<BoxMesh(<<4 * Side + 2 * Millimetre + Metre, 0, 0>>,
                                                         <<5 * Side + 2 * Millimetre + Metre, Side, Side>>)>>)>>

(* findIntersection on the element groups of the files, evaluated once for every pair *)
FileObjects == UNION {{FileElements(file)[k].meshes : k \in 1..Len(FileElements(file))} : file \in Files}
Intersection == [obj1 \in FileObjects, obj2 \in FileObjects |-> findIntersection(obj1, obj2)]

(* a JavaScript Map as a function on its keys; Map.set *)
MapSet(map, key, value) == [k \in DOMAIN map \cup {key} |-> IF k = key THEN value ELSE map[k]]

(* getAllElements: the Element_ groups with a truthy expressID, model after model *)
hasExpressID(info) == info.expressID # 0
ElementInfos(model) ==
    LET groups == FileElements(model.file)
    IN  [k \in 1..Len(groups) |->
            [object |-> groups[k].meshes, modelID |-> model.modelID, expressID |-> groups[k].expressID]]
RECURSIVE getAllElements(_)
getAllElements(ms) ==
    IF ms = <<>> THEN <<>>
    ELSE SelectSeq(ElementInfos(Head(ms)), hasExpressID) \o getAllElements(Tail(ms))

(* `${element1.expressID}-${element2.expressID}` *)
connectionId(expressID1, expressID2) == ToString(expressID1) \o "-" \o ToString(expressID2)

updateElementConnections(map, expressId1, expressId2, id) ==
    LET has1 == IF expressId1 \in DOMAIN map THEN map ELSE MapSet(map, expressId1, {})
        has2 == IF expressId2 \in DOMAIN has1 THEN has1 ELSE MapSet(has1, expressId2, {})
        add1 == MapSet(has2, expressId1, has2[expressId1] \cup {id})
    IN  MapSet(add1, expressId2, add1[expressId2] \cup {id})

NoVisualization == [isNull |-> TRUE]

(***************************************************************************)
(* findConnections: the loops over i < j.  The state of the scan is the    *)
(* local connections map, the elementConnections field (updated in place)  *)
(* and whether findIntersection has thrown, which ends the scan: there is  *)
(* no try/catch around a pair.                                             *)
(***************************************************************************)
RECURSIVE ScanPairs(_, _, _, _)
ScanPairs(elements, i, j, scan) ==
    IF i > Len(elements) THEN scan
    ELSE IF j > Len(elements) THEN ScanPairs(elements, i + 1, i + 2, scan)
    ELSE LET intersection == Intersection[elements[i].object, elements[j].object]
             id == connectionId(elements[i].expressID, elements[j].expressID)
             connection == [id |-> id,
                            elements |-> <<elements[i], elements[j]>>,
                            type |-> intersection.type,
                            measurements |-> intersection.measurements,
                            geometry |-> intersection.geometry,
                            visualization |-> NoVisualization]
         IN  IF intersection = ThrowResult THEN [scan EXCEPT !.throws = TRUE]
             ELSE IF intersection = NullResult THEN ScanPairs(elements, i, j + 1, scan)
             ELSE ScanPairs(elements, i, j + 1,
                      [throws |-> FALSE,
                       connections |-> MapSet(scan.connections, id, connection),
                       elementConnections |->
                           updateElementConnections(scan.elementConnections,
                               elements[i].expressID, elements[j].expressID, id)])

findConnections_incremental(elements, map) ==
    ScanPairs(elements, 1, 2,
        [throws |-> FALSE,
         connections |-> IF connectionData.isNull THEN <<>> ELSE connectionData.connections,
         elementConnections |-> map])
findConnections(elements, map) ==
    ScanPairs(elements, 1, 2, [throws |-> FALSE, connections |-> <<>>, elementConnections |-> map])

(***************************************************************************)
(* IntersectionVisualizer.  createVisualization adds to the scene one      *)
(* object for each part of the geometry (a surface also gets a wireframe); *)
(* sceneObjects holds the visualizer's objects that are in the scene, each *)
(* named by the connection id and the part; it is a bag, because two       *)
(* objects made for the same connection id are two objects of the scene.   *)
(***************************************************************************)
VisualizationParts(geometry) ==
    (IF "points" \in DOMAIN geometry THEN {"points"} ELSE {})
        \cup (IF "lines" \in DOMAIN geometry THEN {"lines"} ELSE {})
        \cup (IF "surface" \in DOMAIN geometry THEN {"surface", "wireframe"} ELSE {})

createVisualization(data) ==
    [isNull |-> FALSE, id |-> data.id, type |-> data.type, visible |-> TRUE,
     parts |-> VisualizationParts(data.geometry)]

VisualizationObjects(map) == UNION {{<<id, part>> : part \in map[id].parts} : id \in DOMAIN map}

(* clear: every object of every stored visualization leaves the scene *)
clear_mapOnly(scene, map) == scene
clear_keepsWireframe(scene, map) ==
    scene (-) SetToBag({o \in VisualizationObjects(map) : o[2] # "wireframe"})
clear(scene, map) == scene (-) SetToBag(VisualizationObjects(map))

(* visualizeConnections: the visualization of every connection of the map *)
CreatedVisualizations(connections) ==
    IF DOMAIN connections = {} THEN <<>>
    ELSE [id \in DOMAIN connections |->
             createVisualization([id |-> id, type |-> connections[id].type,
                                  geometry |-> connections[id].geometry,
                                  measurements |-> connections[id].measurements])]

(* connection.visualization = visualization, for every connection *)
Visualized_dropsGeometry(connections) ==
    IF DOMAIN connections = {} THEN <<>>
    ELSE [id \in DOMAIN connections |->
             [connections[id] EXCEPT !.visualization = CreatedVisualizations(connections)[id],
                                     !.geometry = <<>>]]
Visualized(connections) ==
    IF DOMAIN connections = {} THEN <<>>
    ELSE [id \in DOMAIN connections |->
             [connections[id] EXCEPT !.visualization = CreatedVisualizations(connections)[id]]]

(* setupBoundingBoxes pushes every mesh of a model to the meshes of the detector *)
RECURSIVE SumLen(_)
SumLen(groups) == IF groups = <<>> THEN 0 ELSE Len(Head(groups).meshes) + SumLen(Tail(groups))
RECURSIVE MeshCount(_)
MeshCount(ms) == IF ms = <<>> THEN 0 ELSE SumLen(FileElements(Head(ms).file)) + MeshCount(Tail(ms))

NullData == [isNull |-> TRUE]
setTransparent(ms, flag) == [k \in 1..Len(ms) |-> [ms[k] EXCEPT !.transparent = flag]]

(***************************************************************************)
(* Actions                                                                 *)
(***************************************************************************)
(* loadIFC: OpenModel numbers the model, models.set appends it *)
LoadIFC(file) ==
    /\ Len(models) < MaxModels
    /\ openCount < MaxLoads
    /\ models' = Append(models, [modelID |-> openCount, file |-> file, transparent |-> FALSE])
    /\ openCount' = openCount + 1
    /\ UNCHANGED <<isConnectionMode, connectionsSectionHidden, pending, connectionDetector,
                   connectionVisualizer, elementConnections, connectionVisualizations,
                   connectionData, visualizations, activeMode, sceneObjects, detectorMeshes,
                   connectionsError, uvars, cvars, dvars, svars, lvars>>

(* the delete button of a model *)
DeleteModel(k) ==
    /\ k \in 1..Len(models)
    /\ models' = [n \in 1..(Len(models) - 1) |-> IF n < k THEN models[n] ELSE models[n + 1]]
    /\ UNCHANGED <<openCount, isConnectionMode, connectionsSectionHidden, pending,
                   connectionDetector, connectionVisualizer, elementConnections,
                   connectionVisualizations, connectionData, visualizations, activeMode,
                   sceneObjects, detectorMeshes, connectionsError, uvars, cvars, dvars, svars, lvars>>

(***************************************************************************)
(* Visibility.  updateVisibility (called by setConnectionMode) and         *)
(* setTypeVisibility set the visible flag of the objects of the            *)
(* visualizations of the map; createVisualization leaves the objects it    *)
(* creates with the flag that THREE gives a new object: visible.           *)
(***************************************************************************)
updateVisibility(map, active, flags) == [id \in DOMAIN map |-> active /\ flags[map[id].type]]
setTypeVisibility(map, visibleNow, active, type, visible) ==
    [id \in DOMAIN map |-> IF map[id].type = type THEN visible /\ active ELSE visibleNow[id]]
createdVisible(map, active, flags) == [id \in DOMAIN map |-> TRUE]

(* exitConnectionMode.  elementConnections is not touched. *)
exitConnectionMode ==
    /\ models' = setTransparent(models, FALSE)
    /\ IF connectionVisualizer
       THEN /\ sceneObjects' = clear(sceneObjects, visualizations)
            /\ visualizations' = <<>>
            /\ activeMode' = FALSE
            /\ objectVisible' = updateVisibility(<<>>, FALSE, typeVisibility)
       ELSE UNCHANGED <<sceneObjects, visualizations, activeMode, objectVisible>>
    /\ connectionData' = NullData
    /\ connectionVisualizations' = <<>>
    /\ isConnectionMode' = FALSE
    /\ UNCHANGED <<openCount, pending, connectionDetector, connectionVisualizer,
                   elementConnections, detectorMeshes, connectionsError, typeVisibility,
                   checked>>

(* the visibility of every type set from its checkbox, in the order of the buttons *)
InitializeVisibility(map, visibleNow, active) ==
    setTypeVisibility(map,
        setTypeVisibility(map,
            setTypeVisibility(map, visibleNow, active, "point", checked["point"]),
            active, "line", checked["line"]),
        active, "surface", checked["surface"])

(* the connections button: it toggles the connections section; when the     *)
(* section is shown it calls analyzeConnections, which first waits for its  *)
(* 100 ms timer, enables the visibility buttons and sets the visibility of  *)
(* every type from its checkbox if there is a visualizer; when the section  *)
(* is hidden it calls exitConnectionMode and disables the visibility        *)
(* buttons (they are disabled exactly while the section is hidden)          *)
ConnectionsBtnClick ==
    /\ connectionsSectionHidden' = ~connectionsSectionHidden
    /\ IF connectionsSectionHidden
       THEN /\ pending < MaxPending
            /\ pending' = pending + 1
            /\ IF connectionVisualizer
               THEN /\ typeVisibility' = checked
                    /\ objectVisible' = InitializeVisibility(visualizations, objectVisible, activeMode)
               ELSE UNCHANGED <<typeVisibility, objectVisible>>
            /\ UNCHANGED <<models, openCount, isConnectionMode, connectionDetector,
                           connectionVisualizer, elementConnections, connectionVisualizations,
                           connectionData, visualizations, activeMode, sceneObjects,
                           detectorMeshes, connectionsError, checked>>
       ELSE exitConnectionMode
    /\ UNCHANGED <<cvars, dvars, svars, lvars>>

(* a visibility button: it does nothing while disabled; otherwise it toggles *)
(* its checkbox, whose change handler calls setTypeVisibility if there is a  *)
(* visualizer                                                                *)
VisibilityBtnClick(type) ==
    /\ ~connectionsSectionHidden
    /\ checked' = [checked EXCEPT ![type] = ~checked[type]]
    /\ IF connectionVisualizer
       THEN /\ typeVisibility' = [typeVisibility EXCEPT ![type] = ~checked[type]]
            /\ objectVisible' =
                   setTypeVisibility(visualizations, objectVisible, activeMode, type, ~checked[type])
       ELSE UNCHANGED <<typeVisibility, objectVisible>>
    /\ UNCHANGED <<models, openCount, isConnectionMode, connectionsSectionHidden, pending,
                   connectionDetector, connectionVisualizer, elementConnections,
                   connectionVisualizations, connectionData, visualizations, activeMode,
                   sceneObjects, detectorMeshes, connectionsError, cvars, dvars, svars, lvars>>

(***************************************************************************)
(* analyzeConnections after its timer has fired.  Everything it awaits     *)
(* from here on is already settled, so no event handler runs in between.   *)
(* An error (no element, or a throw of findIntersection) goes to           *)
(* showError, which returns at once because nothing creates the            *)
(* .connections-panel element.                                             *)
(***************************************************************************)
(* document.querySelector(".connections-panel"): no element of that class  *)
(* is ever created, so the query gives null                                *)
connectionsPanel == FALSE
showError(shown) == IF ~connectionsPanel THEN shown ELSE TRUE

AnalyzeTimerFires ==
    /\ pending > 0
    /\ pending' = pending - 1
    /\ connectionDetector' = TRUE
    /\ connectionVisualizer' = TRUE
    /\ LET elements == getAllElements(models)
           found == findConnections(elements, elementConnections)
       IN  IF Len(elements) = 0
           THEN /\ connectionsError' = showError(connectionsError)
                /\ UNCHANGED <<models, elementConnections, connectionData,
                               connectionVisualizations, visualizations, activeMode,
                               sceneObjects, detectorMeshes, objectVisible>>
           ELSE /\ models' = setTransparent(models, TRUE)
                /\ detectorMeshes + MeshCount(models) <= MaxMeshes
                /\ detectorMeshes' = detectorMeshes + MeshCount(models)
                /\ elementConnections' = found.elementConnections
                /\ IF found.throws
                   THEN /\ connectionsError' = showError(connectionsError)
                        /\ UNCHANGED <<connectionData, connectionVisualizations,
                                       visualizations, activeMode, sceneObjects, objectVisible>>
                   ELSE /\ connectionsError' = connectionsError
                        /\ connectionData' = [isNull |-> FALSE, elements |-> elements,
                                              connections |-> Visualized(found.connections)]
                        /\ visualizations' = CreatedVisualizations(found.connections)
                        /\ connectionVisualizations' = CreatedVisualizations(found.connections)
                        /\ activeMode' = TRUE
                        /\ objectVisible' =
                               createdVisible(CreatedVisualizations(found.connections), TRUE,
                                              typeVisibility)
                        /\ sceneObjects' =
                               clear(sceneObjects, visualizations)
                                   (+) SetToBag(VisualizationObjects(CreatedVisualizations(found.connections)))
    /\ UNCHANGED <<openCount, isConnectionMode, connectionsSectionHidden, typeVisibility,
                   checked, cvars, dvars, svars, lvars>>

Next ==
    \/ \E file \in Files : LoadIFC(file)
    \/ \E k \in 1..MaxModels : DeleteModel(k)
    \/ ConnectionsBtnClick
    \/ \E type \in ConnectionTypes : VisibilityBtnClick(type)
    \/ AnalyzeTimerFires

Spec == Init /\ [][Next]_vars

(***************************************************************************)
(* The connections list: updateConnectionsUI has created one section for   *)
(* every type that has connections and one .connection-item for every      *)
(* connection, and every connection has its visualization; the user clicks *)
(* items                                                                   *)
(***************************************************************************)
ItemIds == {connectionId(i, i + 1) : i \in 1..MaxItems}

LInit ==
    /\ connectionItems \in UNION {[ids -> ConnectionTypes] : ids \in SUBSET ItemIds}
    /\ selected = {}
    /\ highlighted = {}

(* content.querySelectorAll(".connection-item"): the items of the .type-content of one *)
(* type section                                                                        *)
typeContent(items, type) == {i \in DOMAIN items : items[i] = type}

(* zoomToConnection: highlight the visualization of the connection, then unhighlight *)
(* every other visualization of connectionVisualizations                             *)
zoomToConnection(items, highlightedNow, id) ==
    (highlightedNow \cup {id}) \ {other \in DOMAIN items : other # id}

(* deselectAll: document.querySelectorAll(".connection-item") loses the class, every *)
(* visualization is unhighlighted                                                    *)
deselectAll(items, marked) == marked \ DOMAIN items

(* the click handler of one item, the click not on its section button *)
ItemClick(id) ==
    LET wasSelected == id \in selected
        removed == selected \ typeContent(connectionItems, connectionItems[id])
    IN  /\ IF ~wasSelected
              THEN /\ selected' = removed \cup {id}
                   /\ highlighted' = zoomToConnection(connectionItems, highlighted, id)
              ELSE /\ selected' = deselectAll(connectionItems, removed)
                   /\ highlighted' = deselectAll(connectionItems, highlighted)
        /\ UNCHANGED <<connectionItems, cvars, dvars, rvars, svars>>

SelectInit == CInit /\ DIdle /\ RInit /\ SIdle /\ LInit

SelectNext == \E id \in DOMAIN connectionItems : ItemClick(id)

SpecSelect == SelectInit /\ [][SelectNext]_vars

(***************************************************************************)
(* Properties of the classifier                                            *)
(***************************************************************************)
Classified == result # NotClassified

(* no two points of the raw list are within the deduplication tolerance and *)
(* none is NaN: the deduplicator keeps the list as it is                    *)
PairwiseApart(pts) ==
    /\ \A k \in 1..Len(pts) : ~isNaNPoint(pts[k])
    /\ \A i, j \in 1..Len(pts) :
           i # j => distanceToSq(pts[i], pts[j]) >= dedupTolerance * dedupTolerance

AtBoundary ==
    /\ Classified
    /\ Len(allIntersectionPoints) = 2
    /\ distanceToSq(allIntersectionPoints[1], allIntersectionPoints[2]) = tolerance * tolerance

(* C8 as stated: two points exactly at the contact tolerance (5 mm) are classified `point` *)
C8_BoundaryIsPoint == AtBoundary => result.type = "point"

(* C8: two points whose distance is exactly the contact tolerance (5 mm) are classified *)
(* `line`: the segment between the two points, with length equal to the tolerance       *)
C8_BoundaryIsLine ==
    AtBoundary =>
        /\ result.type = "line"
        /\ result.geometry.lines = allIntersectionPoints
        /\ result.measurements = [length |-> Root(tolerance * tolerance)]

C8_Witness == AtBoundary /\ result.type = "line"

(* the four corners of a face of the cube: a square of side Side in a plane *)
(* x = const (axis 1), y = const (axis 2) or z = const (axis 3)             *)
Face(axis, c) == {p \in GridCube : p[axis] = c}
IsSquareInput(pts, axis) ==
    /\ Len(pts) = 4
    /\ \E c \in {0, Side} : {pts[k] : k \in 1..4} = Face(axis, c)
(* the measurements hold an area equal to a: a single norm |v| over 2 with |v| = 2 a *)
HasArea(m, a) ==
    /\ DOMAIN m = {"area"}
    /\ m.area.denom = 2
    /\ Len(m.area.norms) = 1
    /\ lengthSq(m.area.norms[1]) = (2 * a) * (2 * a)

(* C9: four corners of a square in a plane x = const, y = const or z = const, in any of the *)
(* 24 input orders, are classified `surface` with the area of the square                    *)
C9_QuadArea ==
    \A axis \in 1..3 :
        (Classified /\ IsSquareInput(allIntersectionPoints, axis)) =>
            /\ result.type = "surface"
            /\ HasArea(result.measurements, Side * Side)

(* the part of C9 that the code does satisfy: squares in a plane z = const *)
QuadAreaHorizontal ==
    (Classified /\ IsSquareInput(allIntersectionPoints, 3)) =>
        /\ result.type = "surface"
        /\ HasArea(result.measurements, Side * Side)

AllCollinear(pts) ==
    \A i, j \in 1..Len(pts) :
        crossVectors(subVectors(pts[i], pts[1]), subVectors(pts[j], pts[1])) = <<0, 0, 0>>
IsFarthestPair(a, b, pts) ==
    /\ \E i, j \in 1..Len(pts) : i # j /\ pts[i] = a /\ pts[j] = b
    /\ \A i, j \in 1..Len(pts) : distanceToSq(pts[i], pts[j]) <= distanceToSq(a, b)
CollinearInput ==
    /\ Classified
    /\ Len(allIntersectionPoints) >= 2
    /\ PairwiseApart(allIntersectionPoints)
    /\ AllCollinear(allIntersectionPoints)
    /\ \E i, j \in 1..Len(allIntersectionPoints) :
           distanceToSq(allIntersectionPoints[i], allIntersectionPoints[j]) >= tolerance * tolerance

(* C10: two or more deduplicated points on one straight line whose farthest pair is at least *)
(* 5 mm apart are classified `line`; the endpoints are the farthest pair and the length is   *)
(* their distance, in any input order                                                        *)
C10_LineClassification ==
    CollinearInput =>
        /\ result.type = "line"
        /\ Len(result.geometry.lines) = 2
        /\ IsFarthestPair(result.geometry.lines[1], result.geometry.lines[2], allIntersectionPoints)
        /\ result.measurements =
               [length |-> Root(distanceToSq(result.geometry.lines[1], result.geometry.lines[2]))]

(* four points on a line, an inner point first and the farthest pair not adjacent in the list *)
C10_Witness ==
    /\ CollinearInput
    /\ Len(allIntersectionPoints) = 4
    /\ allIntersectionPoints[1] = <<tolerance, 0, 0>>
    /\ allIntersectionPoints[3] = <<tolerance - dedupTolerance, 0, 0>>
    /\ result.type = "line"
    /\ result.measurements = [length |-> Root(Side * Side)]

(* C11: classification is total: for every non-empty deduplicated point set the result is *)
(* of kind point, line or surface, never null                                            *)
C11_ClassificationTotal ==
    (Classified /\ uniquePoints # <<>>) => result.type \in {"point", "line", "surface"}

(* three points left of four after a near duplicate was dropped, not on one line *)
C11_Witness ==
    /\ Classified
    /\ Len(allIntersectionPoints) = 4
    /\ Len(uniquePoints) = 3
    /\ result.type = "surface"

(***************************************************************************)
(* Properties of the deduplicator                                          *)
(***************************************************************************)
(* the deduplication loop is over *)
Deduplicated == uniquePoints # <<>> \/ result = NullResult

(* a.distanceTo(b) >= dedupTolerance in IEEE arithmetic: a difference of two infinities of *)
(* the same sign, or with a NaN, is NaN, the distance is then NaN and no comparison holds; *)
(* any other difference with an infinity is infinite and so is the distance                *)
DifferenceIsNaN(x, y) == x = NaN \/ y = NaN \/ (x \in {Infinity, -Infinity} /\ x = y)
distanceAtLeastTolerance(a, b) ==
    /\ \A k \in 1..3 : ~DifferenceIsNaN(a[k], b[k])
    /\ (isFinitePoint(a) /\ isFinitePoint(b)) =>
           distanceToSq(a, b) >= dedupTolerance * dedupTolerance

ApartInOutput(unique) ==
    \A i, j \in 1..Len(unique) : i # j => distanceAtLeastTolerance(unique[i], unique[j])
(* input[k] is itself accepted, or is within the tolerance of a point accepted before it; *)
(* the accepted points are unique[m] = input[at[m]] for an increasing at                  *)
Represented(input, unique) ==
    \E at \in [1..Len(unique) -> 1..Len(input)] :
        /\ \A m \in 1..Len(unique) : unique[m] = input[at[m]]
        /\ \A m, n \in 1..Len(unique) : m < n => at[m] < at[n]
        /\ \A k \in 1..Len(input) :
               isFinitePoint(input[k]) =>
                   \/ \E m \in 1..Len(unique) : at[m] = k
                   \/ \E m \in 1..Len(unique) : at[m] < k /\ distanceToBelow(input[k], unique[m])

(* C12: any two distinct points of the deduplicator's output are at distance >= 1 mm, and *)
(* every valid input point is in the output or within 1 mm of an output point accepted    *)
(* before it, for every input list                                                        *)
C12_DedupCorrect ==
    Deduplicated =>
        /\ ApartInOutput(uniquePoints)
        /\ Represented(allIntersectionPoints, uniquePoints)

(* what the code does satisfy: C12 for the input lists without an infinite coordinate *)
DedupCorrectWithoutInfinity ==
    (Deduplicated /\ \A k \in 1..Len(allIntersectionPoints) :
                         isNaNPoint(allIntersectionPoints[k]) \/ isFinitePoint(allIntersectionPoints[k])) =>
        /\ ApartInOutput(uniquePoints)
        /\ Represented(allIntersectionPoints, uniquePoints)

(* C13: no point with a NaN or infinite coordinate is accepted, and the accepted points are *)
(* those of the deduplication of the input without its invalid points                       *)
C13_NonFiniteDropped ==
    Deduplicated =>
        /\ \A k \in 1..Len(uniquePoints) : isFinitePoint(uniquePoints[k])
        /\ uniquePoints = Deduplicate(SelectSeq(allIntersectionPoints, isFinitePoint), <<>>)

notNaNPoint(p) == ~isNaNPoint(p)
(* what the code does satisfy: C13 for NaN coordinates only *)
NaNDropped ==
    Deduplicated =>
        /\ \A k \in 1..Len(uniquePoints) : ~isNaNPoint(uniquePoints[k])
        /\ uniquePoints = Deduplicate(SelectSeq(allIntersectionPoints, notNaNPoint), <<>>)

(***************************************************************************)
(* Properties of the detector                                              *)
(***************************************************************************)
isWellFormed(mesh) == mesh.geometry = "ok"
HasMalformed(obj) == \E k \in 1..Len(obj) : ~isWellFormed(obj[k])
WellFormedPart(obj) == SelectSeq(obj, isWellFormed)

(* C5: a malformed solid (no geometry, or a geometry without position attribute) is zero   *)
(* contact: findIntersection on a pair that contains one does not throw, and its result is *)
(* the result for the same pair without the malformed solids (no connection when an        *)
(* element has no other solid)                                                             *)
C5_MalformedIsZeroContact ==
    (forward # NotClassified /\ (HasMalformed(element1) \/ HasMalformed(element2))) =>
        /\ forward # ThrowResult
        /\ forward = findIntersection(WellFormedPart(element1), WellFormedPart(element2))

(* what the code does satisfy: when it does not throw, the malformed solids add nothing *)
MalformedAddsNoPoints ==
    (forward # NotClassified /\ forward # ThrowResult) =>
        forward = findIntersection(WellFormedPart(element1), WellFormedPart(element2))

(* the two measurements are the same number; areas are compared when every norm is *)
(* that of a vector along the z axis (contact points in a plane z = const)         *)
RECURSIVE SumAbsZ(_)
SumAbsZ(vs) == IF vs = <<>> THEN 0 ELSE Abs(Head(vs)[3]) + SumAbsZ(Tail(vs))
AlongZ(vs) == \A k \in 1..Len(vs) : vs[k][1] = 0 /\ vs[k][2] = 0
SameMeasurement(m1, m2) ==
    /\ DOMAIN m1 = DOMAIN m2
    /\ "length" \in DOMAIN m1 => m1.length = m2.length
    /\ ("area" \in DOMAIN m1 /\ AlongZ(m1.area.norms) /\ AlongZ(m2.area.norms)) =>
           SumAbsZ(m1.area.norms) * m2.area.denom = SumAbsZ(m2.area.norms) * m1.area.denom

BothOrders ==
    /\ forward # NotClassified
    /\ backward # NotClassified
    /\ ~HasMalformed(element1)
    /\ ~HasMalformed(element2)

(* C7: symmetry: findIntersection(A, B) and findIntersection(B, A) both return no connection, *)
(* or both return a connection of the same kind with the same measurement                     *)
C7_Symmetry ==
    BothOrders =>
        \/ forward = NullResult /\ backward = NullResult
        \/ /\ forward # NullResult
           /\ backward # NullResult
           /\ forward.type = backward.type
           /\ SameMeasurement(forward.measurements, backward.measurements)

(***************************************************************************)
(* Properties of the registry                                              *)
(***************************************************************************)
AnalysisCompleted == ~connectionData.isNull
Participants(connection) == {connection.elements[1].expressID, connection.elements[2].expressID}
ExpressIDs ==
    DOMAIN elementConnections
        \cup UNION {{FileElements(file)[k].expressID : k \in 1..Len(FileElements(file))} : file \in Files}
Adjacent(e) == IF e \in DOMAIN elementConnections THEN elementConnections[e] ELSE {}

(* C1: after a completed analysis the adjacency of every element is exactly the set of ids of *)
(* the connections of the current map in which the element takes part; no id of an earlier   *)
(* run remains                                                                               *)
C1_AdjacencyIsLatestRun ==
    AnalysisCompleted =>
        \A e \in ExpressIDs :
            Adjacent(e) = {id \in DOMAIN connectionData.connections :
                               e \in Participants(connectionData.connections[id])}

ExitStep == ~connectionsSectionHidden /\ connectionsSectionHidden'
RegistryCleared ==
    /\ connectionData.isNull
    /\ \A e \in ExpressIDs : Adjacent(e) = {}
    /\ sceneObjects = EmptyBag
    /\ DOMAIN visualizations = {}
    /\ DOMAIN connectionVisualizations = {}

(* C2: after exitConnectionMode the registry is fully cleared: connectionData is null, the *)
(* adjacency is empty, no visualization is in the scene or in the two visualization maps   *)
C2_ExitClearsRegistry == [][ExitStep => RegistryCleared']_vars

(* C3: while the connections section is hidden (connection mode was left and analysis has   *)
(* not been invoked again) the connection map is empty, no visualization is in the scene    *)
(* and the visualizer is inactive, also when a run that was in flight at the exit finishes  *)
C3_AbandonedRunDiscarded ==
    connectionsSectionHidden =>
        /\ connectionData.isNull
        /\ sceneObjects = EmptyBag
        /\ ~activeMode

TimerStep == pending' = pending - 1
PairsWith(elements, outcomes) ==
    {p \in LoopPairs(Len(elements)) :
        LET intersection == Intersection[elements[p[1]].object, elements[p[2]].object]
        IN  IF intersection = ThrowResult THEN "throw" \in outcomes
            ELSE IF intersection = NullResult THEN "null" \in outcomes
            ELSE "touch" \in outcomes}

(* C4: when findIntersection throws for a pair of the pass, every pair of the pass that *)
(* touches still has its connection in the map that the pass stores                     *)
C4_ThrowIsCaughtPerPair ==
    [][(TimerStep /\ PairsWith(getAllElements(models), {"throw"}) # {}) =>
           LET elements == getAllElements(models)
           IN  /\ ~connectionData'.isNull
               /\ \A p \in PairsWith(elements, {"touch"}) :
                      connectionId(elements[p[1]].expressID, elements[p[2]].expressID)
                          \in DOMAIN connectionData'.connections]_vars

(* C6: the id of every stored connection is the id built for its two elements in the *)
(* other order, and no two stored connections join the same two elements             *)
C6_IdOrderIndependent ==
    AnalysisCompleted =>
        LET connections == connectionData.connections
        IN  /\ \A id \in DOMAIN connections :
                   connections[id].id = connectionId(connections[id].elements[2].expressID,
                                                     connections[id].elements[1].expressID)
            /\ \A id1, id2 \in DOMAIN connections :
                   {connections[id1].elements[1], connections[id1].elements[2]}
                       = {connections[id2].elements[1], connections[id2].elements[2]} => id1 = id2

(* the analysis that starts at this step runs to its end: it finds elements and no pair throws *)
CompletedStep ==
    /\ TimerStep
    /\ Len(getAllElements(models)) > 0
    /\ PairsWith(getAllElements(models), {"throw"}) = {}
ElementSet(elements) == {elements[k] : k \in 1..Len(elements)}

(* C14: when an analysis completes, every participant of every connection of the resulting *)
(* map is an element of the list that was analysed: no connection of an element that was   *)
(* removed before the run remains                                                          *)
C14_NoRemovedParticipant ==
    [][CompletedStep =>
           /\ ~connectionData'.isNull
           /\ \A id \in DOMAIN connectionData'.connections :
                  {connectionData'.connections[id].elements[1],
                   connectionData'.connections[id].elements[2]}
                      \subseteq ElementSet(getAllElements(models))]_vars

(* element 1 was analysed earlier (its connection 1-2 is still in the adjacency), its model *)
(* was removed, and the latest run stored only the connection of the remaining elements     *)
C14_Witness ==
    /\ AnalysisCompleted
    /\ pending = 0
    /\ Len(models) = 1
    /\ models[1].file = "b"
    /\ "1-2" \in Adjacent(2)
    /\ connectionData.elements = getAllElements(models)
    /\ DOMAIN connectionData.connections = {"2-3"}

(* an analysis completes at this step on the element list that the stored run analysed *)
RepeatedStep == CompletedStep /\ ~connectionData.isNull /\ connectionData.elements = getAllElements(models)
Content(data) ==
    {[participants |-> data.connections[id].elements,
      type |-> data.connections[id].type,
      measurements |-> data.connections[id].measurements] : id \in DOMAIN data.connections}

(* C15: a second analysis on an unchanged element list leaves the same set of connections  *)
(* (participants, kind, measurement) and as many visualization objects in the scene as the *)
(* first                                                                                   *)
C15_Idempotent ==
    [][RepeatedStep =>
           /\ ~connectionData'.isNull
           /\ Content(connectionData') = Content(connectionData)
           /\ BagCardinality(sceneObjects') = BagCardinality(sceneObjects)
           /\ Cardinality(DOMAIN visualizations') = Cardinality(DOMAIN visualizations)
           /\ Cardinality(DOMAIN connectionVisualizations') = Cardinality(DOMAIN connectionVisualizations)]_vars

(* the only model ever opened has been analysed twice (its meshes are twice in the meshes *)
(* of the detector) and the connection of its two elements is stored and shown            *)
C15_Witness ==
    /\ openCount = 1
    /\ Len(models) = 1
    /\ models[1].file = "b"
    /\ detectorMeshes = 2 * MeshCount(models)
    /\ pending = 0
    /\ AnalysisCompleted
    /\ DOMAIN connectionData.connections = {"2-3"}
    /\ BagCardinality(sceneObjects) = 3

(* the timer of an analysis fires while the models hold no element *)
ZeroElementStep == TimerStep /\ Len(getAllElements(models)) = 0
RegistryUnchanged ==
    /\ connectionData' = connectionData
    /\ elementConnections' = elementConnections
    /\ connectionVisualizations' = connectionVisualizations
    /\ visualizations' = visualizations
    /\ sceneObjects' = sceneObjects
StoresThatRun ==
    /\ ~connectionData'.isNull
    /\ connectionData'.elements = getAllElements(models)
    /\ LET elements == getAllElements(models)
       IN  DOMAIN connectionData'.connections =
               {connectionId(elements[p[1]].expressID, elements[p[2]].expressID) :
                    p \in PairsWith(elements, {"touch"})}

(* C16: an analysis that finds zero elements ends with the error and its retry button    *)
(* shown and leaves the connection map, the adjacency and the visualizations as they     *)
(* were; an analysis made after elements are loaded completes and stores its connections *)
C16_ZeroElementsRecoverable ==
    /\ [][ZeroElementStep => connectionsError' /\ RegistryUnchanged]_vars
    /\ [][(TimerStep /\ Len(getAllElements(models)) > 0) => StoresThatRun]_vars

(* what holds of the zero-element run: nothing of the registry changes, and a later run *)
(* on loaded elements, none of which makes findIntersection throw, stores its own       *)
(* connections                                                                          *)
ZeroElementsLeaveRegistry ==
    /\ [][ZeroElementStep => RegistryUnchanged]_vars
    /\ [][CompletedStep => StoresThatRun]_vars

(* the records as findConnections stores them in the analysis of this step *)
StoredByFindConnections == findConnections(getAllElements(models), elementConnections).connections
ConnectionFields == {"id", "elements", "type", "measurements", "geometry"}
(* a step that neither replaces the records by an analysis nor removes them *)
KeepsRecords == ~connectionData.isNull /\ ~connectionData'.isNull /\ ~CompletedStep

(* C17: after findConnections has stored a record, nothing changes any of its fields: at *)
(* the end of the analysis every record is as it was stored, and every later step that   *)
(* keeps the records leaves them as they are                                             *)
C17_Immutable ==
    /\ [][CompletedStep =>
              \A id \in DOMAIN StoredByFindConnections :
                  connectionData'.connections[id] = StoredByFindConnections[id]]_vars
    /\ [][KeepsRecords => connectionData'.connections = connectionData.connections]_vars

(* C17 as amended: the analysis that stored a record sets its visualization field, once, *)
(* to the visualization created for it; no other field of a record ever changes          *)
C17_ImmutableButVisualization ==
    /\ [][CompletedStep =>
              /\ DOMAIN connectionData'.connections = DOMAIN StoredByFindConnections
              /\ \A id \in DOMAIN StoredByFindConnections :
                     /\ \A field \in ConnectionFields :
                            connectionData'.connections[id][field] = StoredByFindConnections[id][field]
                     /\ StoredByFindConnections[id].visualization = NoVisualization
                     /\ connectionData'.connections[id].visualization = visualizations'[id]]_vars
    /\ [][KeepsRecords => connectionData'.connections = connectionData.connections]_vars

(* the records of an analysis are still stored, with their visualization, after the *)
(* models they were found in have been deleted                                      *)
C17_Witness ==
    /\ AnalysisCompleted
    /\ pending = 0
    /\ models = <<>>
    /\ "2-3" \in DOMAIN connectionData.connections
    /\ connectionData.connections["2-3"].type = "surface"
    /\ ~connectionData.connections["2-3"].visualization.isNull

(* the contact points of a pair after deduplication, a malformed solid adding none *)
ContactSet(obj1, obj2) ==
    Deduplicate(RaycastPairs(WellFormedPart(obj1), WellFormedPart(obj2), 1, 1).points, <<>>)
PassingPairs(elements) ==
    {p \in LoopPairs(Len(elements)) :
        /\ BoundingFilter(elements[p[1]].object, elements[p[2]].object)
        /\ ContactSet(elements[p[1]].object, elements[p[2]].object) # <<>>}
PairIds(elements, pairs) ==
    {connectionId(elements[p[1]].expressID, elements[p[2]].expressID) : p \in pairs}
(* the map of the step holds a connection for exactly the passing pairs, and the ids that *)
(* the step adds to the adjacency are ids of passing pairs                                *)
StoredExactlyPassing ==
    LET elements == getAllElements(models)
        ids == PairIds(elements, PassingPairs(elements))
    IN  /\ ~connectionData'.isNull
        /\ connectionData'.elements = elements
        /\ DOMAIN connectionData'.connections = ids
        /\ \A e \in DOMAIN elementConnections' :
               elementConnections'[e] \subseteq
                   ids \cup (IF e \in DOMAIN elementConnections THEN elementConnections[e] ELSE {})

(* C18: an analysis stores a connection for a pair exactly when the pair passes the     *)
(* bounding filter and its deduplicated contact points are not empty; every other pair  *)
(* gets no connection and no adjacency entry, and is no error: the analysis completes   *)
C18_StoredIffContact ==
    [][(TimerStep /\ Len(getAllElements(models)) > 0) => StoredExactlyPassing]_vars

(* the same for the analyses in which findIntersection does not throw *)
StoredIffContactWithoutThrow ==
    [][CompletedStep => StoredExactlyPassing]_vars

(* the bounding boxes of two elements are 1 m or more apart along an axis *)
FarApart(obj1, obj2) ==
    LET boxA == setFromObject(obj1)
        boxB == setFromObject(obj2)
    IN  /\ ~boxA.empty
        /\ ~boxB.empty
        /\ \E a \in 1..3 : boxB.min[a] - boxA.max[a] >= Metre \/ boxA.min[a] - boxB.max[a] >= Metre

(* C19: a pair of elements whose bounding boxes are 1 m apart is rejected by the bounding *)
(* filter, so that findIntersection does not get to the sampler, and has no connection in *)
(* the map; the analysis of a list of two such elements stores an empty map               *)
C19_DisjointRejected ==
    [][(TimerStep /\ Len(getAllElements(models)) > 0) =>
           LET elements == getAllElements(models)
           IN  /\ \A p \in LoopPairs(Len(elements)) :
                      FarApart(elements[p[1]].object, elements[p[2]].object) =>
                          /\ ~reachesSampler(elements[p[1]].object, elements[p[2]].object)
                          /\ \/ connectionData'.isNull
                             \/ connectionId(elements[p[1]].expressID, elements[p[2]].expressID)
                                    \notin DOMAIN connectionData'.connections
               /\ (Len(elements) = 2 /\ FarApart(elements[1].object, elements[2].object)) =>
                      /\ ~connectionData'.isNull
                      /\ connectionData'.connections = <<>>
                      /\ sceneObjects' = EmptyBag]_vars

(* the two elements of the only model are 1 m apart and their analysis has stored an *)
(* empty map                                                                         *)
C19_Witness ==
    /\ Len(models) = 1
    /\ models[1].file = "d"
    /\ pending = 0
    /\ detectorMeshes = MeshCount(models)
    /\ AnalysisCompleted
    /\ Len(connectionData.elements) = 2
    /\ FarApart(connectionData.elements[1].object, connectionData.elements[2].object)
    /\ DOMAIN connectionData.connections = {}

(* the points that the sampler returns for a pair when it is called: some sampled vertex *)
(* of the first element has a hit on the second within the range far along an axis       *)
SamplerPoints(obj1, obj2) == RaycastPairs(WellFormedPart(obj1), WellFormedPart(obj2), 1, 1).points

(* C20: the bounding filter has no false negative: every pair of analysed elements for *)
(* which the sampler returns contact points passes the filter                          *)
C20_NoFalseNegative ==
    AnalysisCompleted =>
        \A p \in LoopPairs(Len(connectionData.elements)) :
            LET obj1 == connectionData.elements[p[1]].object
                obj2 == connectionData.elements[p[2]].object
            IN  SamplerPoints(obj1, obj2) # <<>> => BoundingFilter(obj1, obj2)

(***************************************************************************)
(* Properties of the classified result                                     *)
(***************************************************************************)
SeqSet(q) == {q[k] : k \in 1..Len(q)}
(* the number of vertices of the position attribute of a surface geometry: the fan has *)
(* the centroid before the points                                                      *)
VertexCount(surface) ==
    IF "center" \in DOMAIN surface THEN Len(surface.position) + 1 ELSE Len(surface.position)

(* C21: the kind determines the payload: a point result carries one position and no      *)
(* measurement, a line result two endpoints and a length and no area, a surface result   *)
(* the boundary points, a mesh of triangles over its vertices and an area and no length  *)
C21_KindDeterminesPayload ==
    Classified =>
        /\ result.type = "point" =>
               /\ DOMAIN result.geometry = {"points"}
               /\ Len(result.geometry.points) = 1
               /\ DOMAIN result.measurements = {}
        /\ result.type = "line" =>
               /\ DOMAIN result.geometry = {"lines"}
               /\ Len(result.geometry.lines) = 2
               /\ DOMAIN result.measurements = {"length"}
        /\ result.type = "surface" =>
               /\ DOMAIN result.geometry = {"points", "surface"}
               /\ SeqSet(result.geometry.points) = SeqSet(uniquePoints)
               /\ Len(result.geometry.surface.index) >= 1
               /\ \A t \in 1..Len(result.geometry.surface.index) :
                      \A c \in 1..3 :
                          result.geometry.surface.index[t][c]
                              \in 0..(VertexCount(result.geometry.surface) - 1)
               /\ DOMAIN result.measurements = {"area"}

(* four points of which three lie along a line: a surface over a quadrilateral *)
C21_Witness ==
    /\ Classified
    /\ Len(uniquePoints) = 4
    /\ result.type = "surface"
    /\ \E a, b, c \in 1..4 : a < b /\ b < c /\ AllCollinear(<<uniquePoints[a], uniquePoints[b], uniquePoints[c]>>)

(* the result is a surface built as a triangle fan *)
IsFan == Classified /\ result.type = "surface" /\ Len(uniquePoints) # 4
(* the wedges that the area sum of the fan runs over, as triangles of mesh vertices: *)
(* vertex 0 is the centroid and vertex k is the k-th point                           *)
AreaWedges(n) == {<<0, i, (i % n) + 1>> : i \in 1..n}

(* C22: the fan of a surface of n points has n triangles (centroid, p_i, p_(i+1 mod n)): *)
(* every point is a vertex of a triangle, no triangle is repeated, and the triangles are *)
(* the wedges of the area sum                                                            *)
C22_FanClosesLoop ==
    IsFan =>
        LET n == Len(uniquePoints)
            index == result.geometry.surface.index
            corners(t) == {t[1], t[2], t[3]}
        IN  /\ result.geometry.surface.position = uniquePoints
            /\ Len(index) = n
            /\ \A k \in 1..n : \E t \in 1..Len(index) : k \in corners(index[t])
            /\ \A t, r \in 1..Len(index) : t # r => corners(index[t]) # corners(index[r])
            /\ SeqSet(index) = AreaWedges(n)

(* what the index loop builds: one triangle less, none of which has the last point *)
FanOmitsLastPoint ==
    IsFan =>
        LET n == Len(uniquePoints)
            index == result.geometry.surface.index
        IN  /\ Len(index) = n - 1
            /\ \A t \in 1..Len(index) : n \notin {index[t][1], index[t][2], index[t][3]}

(* the farthest pair of the deduplicated points is at least the tolerance apart *)
FarthestApart == ~maxDistBelow(FarthestPair(uniquePoints).maxDist)
(* some point deviates from the line through the farthest pair by more than the tolerance *)
SomeDeviatesAbove ==
    \E k \in 1..Len(uniquePoints) :
        DeviationAbove(uniquePoints[k], FarthestPair(uniquePoints).p1, FarthestPair(uniquePoints).p2)
(* the largest deviation is exactly the tolerance *)
DeviationAtTolerance ==
    /\ ~maxDeviationBelow(uniquePoints, FarthestPair(uniquePoints).p1, FarthestPair(uniquePoints).p2)
    /\ ~SomeDeviatesAbove

(* C23: the result is a surface exactly when there are three or more points, the farthest *)
(* pair is at least 5 mm apart and some point deviates from the line through it by more   *)
(* than 5 mm; with the largest deviation exactly 5 mm the result is the line of the       *)
(* farthest pair with its distance as length; two points are never a surface              *)
C23_SurfaceIffDeviation ==
    (Classified /\ uniquePoints # <<>>) =>
        /\ result.type = "surface" <=>
               (Len(uniquePoints) >= 3 /\ FarthestApart /\ SomeDeviatesAbove)
        /\ (Len(uniquePoints) >= 2 /\ FarthestApart /\ DeviationAtTolerance) =>
               /\ result.type = "line"
               /\ result.geometry.lines =
                      <<FarthestPair(uniquePoints).p1, FarthestPair(uniquePoints).p2>>
               /\ result.measurements = [length |-> Root(FarthestPair(uniquePoints).maxDist)]
        /\ Len(uniquePoints) = 2 => result.type # "surface"

(* three points, the third exactly 5 mm from the line through the other two: a line *)
C23_Witness ==
    /\ Classified
    /\ Len(uniquePoints) = 3
    /\ FarthestApart
    /\ DeviationAtTolerance
    /\ result.type = "line"

(* the pairs i < j of the deduplicated points that are the largest distance apart *)
PairDistance(p) == distanceToSq(uniquePoints[p[1]], uniquePoints[p[2]])
FarthestPairs ==
    {p \in LoopPairs(Len(uniquePoints)) : \A q \in LoopPairs(Len(uniquePoints)) : PairDistance(q) <= PairDistance(p)}
FirstFarthest == CHOOSE p \in FarthestPairs : \A q \in FarthestPairs : q = p \/ LoopBefore(p, q)
CloseTogether ==
    /\ Classified
    /\ Len(uniquePoints) >= 2
    /\ \A p \in LoopPairs(Len(uniquePoints)) : PairDistance(p) < tolerance * tolerance

(* C24: two or more points whose farthest pair is less than 5 mm apart are a point, at *)
(* the first point of the farthest pair, which is the first pair of the scan over      *)
(* i < j among the pairs at the largest distance                                       *)
C24_PointAtFirstOfFarthest ==
    CloseTogether =>
        /\ result.type = "point"
        /\ result.geometry.points = <<uniquePoints[FirstFarthest[1]]>>

(* three points within 5 mm with two pairs at the largest distance, (1, 3) and then *)
(* (2, 3): the position is the first point of the list                              *)
C24_Witness ==
    /\ CloseTogether
    /\ Len(uniquePoints) = 3
    /\ Cardinality(FarthestPairs) = 2
    /\ FirstFarthest = <<1, 3>>
    /\ <<2, 3>> \in FarthestPairs
    /\ result.geometry.points = <<uniquePoints[1]>>

(***************************************************************************)
(* Properties of the sampler                                               *)
(***************************************************************************)
(* a ray records at most one hit: intersects[0] *)
AtMostOneHit ==
    \A meshA \in UNION {SeqSet(obj) : obj \in FileObjects} :
        \A meshB \in UNION {SeqSet(obj) : obj \in FileObjects} :
            \A i \in 0..(positionCount(meshA) - 1) :
                \A d \in 1..Len(rayDirections) :
                    Len(intersectObject(fromBufferAttribute(meshA, i), rayDirections[d], meshB)) <= 1

(* C25: for every vertex count the sampling loop probes at most 1000 vertices, casts six *)
(* rays from each of them and records at most one hit for a ray                          *)
C25_SamplingBound ==
    sampled.done =>
        /\ sampled.probed <= 1000
        /\ sampled.rays = 6 * sampled.probed
        /\ AtMostOneHit

(* what the stride max(1, floor(count / 1000)) gives: fewer than 2000 probed vertices *)
ProbedBelowTwoThousand ==
    sampled.done =>
        /\ sampled.probed < 2000
        /\ (vertexCount <= 1000 => sampled.probed = vertexCount)
        /\ sampled.rays = 6 * sampled.probed
        /\ AtMostOneHit

(***************************************************************************)
(* Properties of the connection ids                                        *)
(***************************************************************************)
(* the pairs of the analysed list for which findIntersection found an intersection *)
FoundPairs == PairsWith(connectionData.elements, {"touch"})
IdOfPair(p) ==
    connectionId(connectionData.elements[p[1]].expressID, connectionData.elements[p[2]].expressID)
(* no two elements of the analysed list, of one model or of two, have the same expressID *)
ExpressIDsDistinct ==
    \A i, j \in 1..Len(connectionData.elements) :
        i # j => connectionData.elements[i].expressID # connectionData.elements[j].expressID

(* C26: two different pairs of elements, an element being a model and an expressID, never *)
(* get the same connection id, so the map holds one connection for every pair for which   *)
(* an intersection was found                                                              *)
C26_IdsUniquePerPair ==
    AnalysisCompleted =>
        /\ \A p, q \in FoundPairs : p # q => IdOfPair(p) # IdOfPair(q)
        /\ Cardinality(DOMAIN connectionData.connections) = Cardinality(FoundPairs)

(* the same for the analyses of elements whose expressIDs are all different *)
IdsUniqueForDistinctExpressIDs ==
    (AnalysisCompleted /\ ExpressIDsDistinct) =>
        /\ \A p, q \in FoundPairs : p # q => IdOfPair(p) # IdOfPair(q)
        /\ Cardinality(DOMAIN connectionData.connections) = Cardinality(FoundPairs)

(***************************************************************************)
(* Properties of the registry and the visualizer together                  *)
(***************************************************************************)
(* the ids of the stored connections that have a geometry *)
StoredWithGeometry ==
    IF connectionData.isNull THEN {}
    ELSE {id \in DOMAIN connectionData.connections :
              VisualizationParts(connectionData.connections[id].geometry) # {}}

(* C27: the ids of the visualizations of the visualizer, the ids of connectionVisualizations *)
(* and the ids of the stored connections with geometry are the same set, and the connection *)
(* objects in the scene are the objects of the visualizations of the visualizer's map, each *)
(* once, so that clear removes all of them                                                  *)
C27_RegistryAndVisualizerAgree ==
    /\ DOMAIN visualizations = DOMAIN connectionVisualizations
    /\ DOMAIN visualizations = StoredWithGeometry
    /\ sceneObjects = SetToBag(VisualizationObjects(visualizations))
    /\ clear(sceneObjects, visualizations) = EmptyBag

(* an analysis that was started before exitConnectionMode has completed after it, and a *)
(* second one after that: the section is hidden and the connections are shown           *)
C27_Witness ==
    /\ connectionsSectionHidden
    /\ pending = 0
    /\ detectorMeshes = 2 * MeshCount(models)
    /\ AnalysisCompleted
    /\ DOMAIN visualizations = {"2-3"}
    /\ BagCardinality(sceneObjects) = 3

(* C28: the objects of every visualization are visible exactly when the visualizer's mode *)
(* is active and the visibility flag of the type of the visualization is on               *)
C28_VisibleIffActiveAndTypeOn ==
    /\ DOMAIN objectVisible = DOMAIN visualizations
    /\ \A id \in DOMAIN visualizations :
           objectVisible[id] <=> (activeMode /\ typeVisibility[visualizations[id].type])

(* while the visibility flag of every type is on, the objects of every visualization are *)
(* visible exactly when the mode is active                                               *)
VisibleWhileAllTypesOn ==
    (\A type \in ConnectionTypes : typeVisibility[type]) =>
        \A id \in DOMAIN visualizations : objectVisible[id] <=> activeMode

(* C29: whenever the visualizer's connection mode is active, the viewer's isConnectionMode *)
(* is true, so that hover and click picking are skipped while the connections are shown    *)
C29_ModeConsistent == activeMode => isConnectionMode

(* the viewer's flag is never set: only exitConnectionMode calls the viewer's *)
(* setConnectionMode, with false                                              *)
ViewerModeNeverSet == ~isConnectionMode

(* a click that leaves the connection mode leaves both flags false *)
ExitClearsBothModes ==
    [][(~connectionsSectionHidden /\ connectionsSectionHidden')
          => (~activeMode' /\ ~isConnectionMode')]_vars

(* C30: at most one connection item is selected, whatever the type sections of the items *)
(* clicked, and a visualization is highlighted exactly when its item is the selected one *)
C30_SingleSelection ==
    /\ Cardinality(selected) <= 1
    /\ highlighted = selected

(* at most one item of every type section is selected, at most one visualization is *)
(* highlighted, and its item is selected                                            *)
SingleSelectionPerSection ==
    /\ \A type \in ConnectionTypes :
           Cardinality(selected \cap typeContent(connectionItems, type)) <= 1
    /\ Cardinality(highlighted) <= 1
    /\ highlighted \subseteq selected

(* clicking a selected item again leaves no item selected and no visualization highlighted *)
ReclickDeselectsAll ==
    [][(\E id \in selected : ItemClick(id)) => (selected' = {} /\ highlighted' = {})]_vars
====
